---- MODULE Spec2Model ----
(***************************************************************************)
(* A model of the Mandelbrot / Julia explorer of src/src/main.rs.          *)
(*                                                                         *)
(* Numbers.  The program computes in f64.  The model computes in fixed     *)
(* point: the integer n stands for the real n / FP.  Every product and     *)
(* quotient is truncated toward zero to a multiple of 1/FP, where f64      *)
(* rounds to 53 significant bits.  log2, log10 and sqrt are computed       *)
(* digit by digit on these integers.  u32 / usize values are integers.     *)
(***************************************************************************)
EXTENDS Integers, Sequences, FiniteSets, TLC

VARIABLES
    eval,           \* one call of an evaluator followed by colorize_pixel
    app,            \* the MandelbrotApp struct (self)
    pc,             \* the position of update() within the current frame
    display_size,   \* update()'s local display_size, kept for the mouse handler
    input,          \* the input the last step of the frame handled
    rendered,       \* what the last call of render_fractal computed
    image,          \* the size and data length of the last ColorImage built
    buffer,         \* render_fractal: self.buffer, one u32 per pixel
    request,        \* render_fractal: self.params, render_width, render_height
    task_pos,       \* render_fractal: how far each parallel task has come
    writes,         \* render_fractal: how often each index was written
    pass,           \* render_fractal: the first or the second call
    first_pass      \* render_fractal: the buffer the first call left

evalVars == <<eval>>
appVars == <<app, pc, display_size, input, rendered, image>>
renderVars == <<buffer, request, task_pos, writes, pass, first_pass>>
vars == <<evalVars, appVars, renderVars>>

\* Resolution of the fixed-point reading of f64: n stands for n / FP.
FP == 10 ^ 3

Abs(a) == IF a < 0 THEN -a ELSE a
Sign(a) == IF a < 0 THEN -1 ELSE 1
Min(a, b) == IF a <= b THEN a ELSE b
Max(a, b) == IF a >= b THEN a ELSE b

\* f64 product a * b, truncated; split so that no intermediate exceeds 2^31.
Mul(a, b) ==
    Sign(a) * Sign(b) *
      ((Abs(a) \div FP) * Abs(b) + ((Abs(a) % FP) * Abs(b)) \div FP)

\* f64 quotient a / b (b # 0), truncated; split like Mul.
Div(a, b) ==
    Sign(a) * Sign(b) *
      ((Abs(a) \div Abs(b)) * FP + ((Abs(a) % Abs(b)) * FP) \div Abs(b))

\* f64 of an integer (u32 / usize `as f64`).
ToF64(n) == n * FP

\* f64 `as u32` / `as usize`: truncation toward zero, negatives saturate to 0.
ToU32(a) == IF a <= 0 THEN 0 ELSE a \div FP

\* f64 `as u8`: truncation toward zero, saturating at 0 and 255.
ToU8(a) == IF a <= 0 THEN 0 ELSE Min(a \div FP, 255)

\* f64::fract: x - trunc(x); it keeps the sign of x.
Fract(a) == Sign(a) * (Abs(a) % FP)

\* f64::sqrt of a >= 0: the largest s with s * s <= a, by bisection (below
\* 1400, the root of the largest number the model's integers hold).
RECURSIVE SqrtBisect(_, _, _)
SqrtBisect(a, lo, hi) ==
    IF hi - lo <= 1 THEN lo
    ELSE LET mid == (lo + hi) \div 2
         IN IF Mul(mid, mid) <= a THEN SqrtBisect(a, mid, hi)
            ELSE SqrtBisect(a, lo, mid)

Sqrt(a) == IF a <= 0 THEN 0 ELSE SqrtBisect(a, 0, Min(a + FP + 1, 1400 * FP))

\* The fractional bits of log2(x) for FP <= x < 2 FP, by repeated squaring;
\* w is the weight of the next bit.
RECURSIVE Log2Frac(_, _)
Log2Frac(x, w) ==
    IF w = 0 THEN 0
    ELSE LET s == Mul(x, x)
         IN IF s >= 2 * FP THEN w + Log2Frac(s \div 2, w \div 2)
            ELSE Log2Frac(s, w \div 2)

\* ln(x) / LN_2 for x > 0.  (ln of x <= 0 is -inf or NaN in f64; no state
\* of the model takes it, the escape radius being at least 1.5.)
RECURSIVE Log2(_)
Log2(x) ==
    IF x <= 0 THEN -(2 ^ 20) * FP
    ELSE IF x >= 2 * FP THEN FP + Log2(x \div 2)
    ELSE IF x < FP THEN Log2(2 * x) - FP
    ELSE Log2Frac(x, FP \div 2)

\* log10(2), to the resolution of the model.
Log10Of2 == (30103 * FP) \div (10 ^ 5)

\* f64::log10 of x >= 1.
Log10(x) == Mul(Log2(x), Log10Of2)

-----------------------------------------------------------------------------
(* EscapeTimeEvaluator: mandelbrot_iterations and julia_iterations.        *)

\* The while loop of both evaluators, run to its exit: the final zr, zi, iter.
RECURSIVE EscapeLoop(_, _, _, _, _, _, _)
EscapeLoop(zr, zi, c_real, c_imag, iter, max_iter, escape_radius_sq) ==
    IF Mul(zr, zr) + Mul(zi, zi) <= escape_radius_sq /\ iter < max_iter
    THEN LET zr_new == Mul(zr, zr) - Mul(zi, zi) + c_real
             zi_new == Mul(2 * zr, zi) + c_imag
         IN EscapeLoop(zr_new, zi_new, c_real, c_imag, iter + 1, max_iter,
                       escape_radius_sq)
    ELSE [zr |-> zr, zi |-> zi, iter |-> iter]

\* The smooth colouring of an escaped orbit, off by one iteration.
SmoothValueOffByOne(exit) ==
    LET mag == Sqrt(Mul(exit.zr, exit.zr) + Mul(exit.zi, exit.zi))
    IN ToF64(exit.iter) + 2 * FP - Log2(Log2(mag))

\* iter as f64 + 1.0 - (mag.ln() / LN_2).ln() / LN_2
SmoothValue(exit) ==
    LET mag == Sqrt(Mul(exit.zr, exit.zr) + Mul(exit.zi, exit.zi))
    IN ToF64(exit.iter) + FP - Log2(Log2(mag))

\* The value returned from the loop's exit state.
EscapeValue(exit, max_iter) ==
    IF exit.iter >= max_iter THEN ToF64(max_iter) ELSE SmoothValue(exit)

mandelbrot_iterations(c_real, c_imag, max_iter, escape_radius_sq) ==
    EscapeValue(EscapeLoop(0, 0, c_real, c_imag, 0, max_iter, escape_radius_sq),
                max_iter)

julia_iterations(z_real, z_imag, c_real, c_imag, max_iter, escape_radius_sq) ==
    EscapeValue(EscapeLoop(z_real, z_imag, c_real, c_imag, 0, max_iter,
                           escape_radius_sq),
                max_iter)

-----------------------------------------------------------------------------
(* ColorMapper: colorize_pixel.                                            *)

\* t = ((iterations / max_iter as f64) * color_scale + color_offset).fract()
PaletteT(iterations, max_iter, color_scale, color_offset) ==
    Fract(Mul(Div(iterations, ToF64(max_iter)), color_scale) + color_offset)

colorize_pixel(iterations, max_iter, color_scale, color_offset) ==
    IF iterations >= ToF64(max_iter) THEN 0
    ELSE LET t == PaletteT(iterations, max_iter, color_scale, color_offset)
             u == FP - t
             r == ToU8(255 * Mul(Mul(Mul(9 * u, t), t), t))
             g == ToU8(255 * Mul(Mul(Mul(15 * u, u), t), t))
             b == ToU8(255 * Mul(Mul(Mul(Mul(8500, u), u), u), t))
         IN r * 65536 + g * 256 + b

-----------------------------------------------------------------------------
(* SpecEval: one evaluator call and the colouring of its result, on inputs *)
(* drawn from bounded sets.                                                *)

\* Largest of the small iteration caps the evaluators are called with.
MaxIterEval == 4

EvalMaxIters == (1 .. MaxIterEval) \cup {10}
\* Sampled points: real and imaginary part.
EvalXs == {-5 * FP, -2 * FP, -(3 * FP) \div 4, 0, (3 * FP) \div 10,
           (8 * FP) \div 5, 3 * FP}
EvalYs == {0, FP \div 2, (11 * FP) \div 10}
\* Julia constants: the default one and the origin.
EvalCs == {<<-(7 * FP) \div 10, (27 * FP) \div 100>>, <<0, 0>>}
\* Escape radii within the slider's range 1.5 ..= 10.0.
EvalRadii == {(3 * FP) \div 2, 2 * FP, 10 * FP}
\* Colour scales within 0.1 ..= 5.0, colour offsets within 0.0 ..= 1.0.
EvalScales == {FP, 5 * FP}
EvalOffsets == {0, (3 * FP) \div 10}

NoExit == [zr |-> 0, zi |-> 0, iter |-> 0]

EvalInit ==
    \E jm \in BOOLEAN, x \in EvalXs, y \in EvalYs, c \in EvalCs,
       mi \in EvalMaxIters, er \in EvalRadii, cs \in EvalScales,
       co \in EvalOffsets :
        /\ (~jm) => c = <<0, 0>>
        /\ eval = [pc |-> "start", julia_mode |-> jm, x |-> x, y |-> y,
                   c_real |-> c[1], c_imag |-> c[2], max_iter |-> mi,
                   escape_radius |-> er, color_scale |-> cs,
                   color_offset |-> co, exit |-> NoExit, iterations |-> 0,
                   t |-> 0, pixel |-> 0, pixel_shifted |-> 0]

\* let escape_radius_sq = self.params.escape_radius * self.params.escape_radius
EscapeRadiusSq(escape_radius) == Mul(escape_radius, escape_radius)

EvalMandelbrot ==
    /\ eval.pc = "start" /\ ~eval.julia_mode
    /\ LET rsq == EscapeRadiusSq(eval.escape_radius)
       IN eval' = [eval EXCEPT
            !.pc = "evaluated",
            !.exit = EscapeLoop(0, 0, eval.x, eval.y, 0, eval.max_iter, rsq),
            !.iterations = mandelbrot_iterations(eval.x, eval.y,
                                                 eval.max_iter, rsq)]

EvalJulia ==
    /\ eval.pc = "start" /\ eval.julia_mode
    /\ LET rsq == EscapeRadiusSq(eval.escape_radius)
       IN eval' = [eval EXCEPT
            !.pc = "evaluated",
            !.exit = EscapeLoop(eval.x, eval.y, eval.c_real, eval.c_imag, 0,
                                eval.max_iter, rsq),
            !.iterations = julia_iterations(eval.x, eval.y, eval.c_real,
                                            eval.c_imag, eval.max_iter, rsq)]

\* colorize_pixel on the evaluator's result, with color_offset and with
\* color_offset + 1.
EvalColorize ==
    /\ eval.pc = "evaluated"
    /\ eval' = [eval EXCEPT
         !.pc = "colored",
         !.t = PaletteT(eval.iterations, eval.max_iter, eval.color_scale,
                        eval.color_offset),
         !.pixel = colorize_pixel(eval.iterations, eval.max_iter,
                                  eval.color_scale, eval.color_offset),
         !.pixel_shifted = colorize_pixel(eval.iterations, eval.max_iter,
                                          eval.color_scale,
                                          eval.color_offset + FP)]

EvalNext ==
    \/ EvalMandelbrot /\ UNCHANGED <<appVars, renderVars>>
    \/ EvalJulia /\ UNCHANGED <<appVars, renderVars>>
    \/ EvalColorize /\ UNCHANGED <<appVars, renderVars>>

\* |z|^2 of the loop's exit state.
ExitMagSq(exit) == Mul(exit.zr, exit.zr) + Mul(exit.zi, exit.zi)

\* (2^(2^(iter+1)))^2, the square of the largest exit magnitude for which
\* the smooth value is not negative; beyond iter = 2 no orbit exceeds it.
DoubleExpSq(iter) ==
    CASE iter = 0 -> 16 * FP
      [] iter = 1 -> 256 * FP
      [] OTHER -> 65536 * FP

\* C1 (as stated): for every point, constant, max_iter >= 1 and escape radius
\* the value returned by mandelbrot_iterations / julia_iterations lies in
\* [0, max_iter].
C1_ValueInRange ==
    eval.pc # "start" =>
        /\ 0 <= eval.iterations
        /\ eval.iterations <= ToF64(eval.max_iter)

\* C1 (amended): with an escape radius of at least 2 the returned value is at
\* most max_iter, and is max_iter exactly when the loop ran max_iter times;
\* it is at least 0 when the orbit leaves with |z| <= 2^(2^(iter+1)).
C1_ValueBounds ==
    (eval.pc # "start" /\ eval.escape_radius >= 2 * FP) =>
        /\ eval.iterations <= ToF64(eval.max_iter)
        /\ eval.exit.iter >= eval.max_iter
              => eval.iterations = ToF64(eval.max_iter)
        /\ ExitMagSq(eval.exit) <= DoubleExpSq(eval.exit.iter)
              => eval.iterations >= 0

\* C1 witness: a Julia orbit that escapes on its last allowed iteration with
\* radius 2, and whose smooth value lies strictly inside (0, max_iter).
C1_Witness ==
    /\ eval.pc = "evaluated" /\ eval.julia_mode
    /\ eval.escape_radius = 2 * FP
    /\ eval.max_iter > 1
    /\ eval.exit.iter = eval.max_iter - 1
    /\ 0 < eval.iterations /\ eval.iterations < ToF64(eval.max_iter)

\* C8 (as stated): the colour is unchanged by color_offset + 1, and the
\* palette parameter t lies in [0, 1).
C8_OffsetPeriodic ==
    eval.pc = "colored" =>
        /\ eval.pixel = eval.pixel_shifted
        /\ 0 <= eval.t /\ eval.t < FP

-----------------------------------------------------------------------------
(* MandelbrotApp: the state of the program and its update() frame.         *)
(*                                                                         *)
(* The fields animation_time and last_render_time are written and never   *)
(* read by any decision of the program; the model leaves them out.  The   *)
(* buffer holds at least 200 x 150 pixels: here it is its length, and     *)
(* SpecRender below models its content.                                   *)

\* impl Default for MandelbrotParams
DefaultParams ==
    [center_x |-> -(3 * FP) \div 4, center_y |-> 0, zoom |-> 200 * FP,
     max_iter |-> 500, escape_radius |-> 2 * FP, color_offset |-> 0,
     color_scale |-> FP, julia_mode |-> FALSE,
     julia_c_real |-> -(7 * FP) \div 10,
     julia_c_imag |-> (27015 * FP) \div (10 ^ 5)]

Keyframe(time, c_real, c_imag) ==
    [time |-> time, c_real |-> c_real, c_imag |-> c_imag]

\* The five keyframes built by MandelbrotApp::default.
DefaultKeyframes ==
    << Keyframe(0, -(7 * FP) \div 10, (27015 * FP) \div (10 ^ 5)),
       Keyframe(FP \div 4, -(8 * FP) \div 10, (156 * FP) \div 1000),
       Keyframe(FP \div 2, (285 * FP) \div 1000, FP \div 100),
       Keyframe((3 * FP) \div 4, -(4 * FP) \div 10, (6 * FP) \div 10),
       Keyframe(FP, -(7 * FP) \div 10, (27015 * FP) \div (10 ^ 5)) >>

\* julia_animation_time += 0.00016, in units of 1/100000 s.
AnimStep == 16

\* The longest animation of the model, in frames.  The program's durations
\* are 5.0 ..= 60.0 s (default 20.0 s), 31250 to 375000 frames of AnimStep;
\* the model scales them down to 2 .. MaxAnimSteps frames.
MaxAnimSteps == 3

\* julia_animation_duration: 20.0
DefaultDuration == MaxAnimSteps * AnimStep

\* impl Default for MandelbrotApp
DefaultApp ==
    [params |-> DefaultParams, buffer_len |-> 0, texture |-> FALSE,
     needs_redraw |-> TRUE, auto_zoom |-> FALSE,
     zoom_speed |-> (102 * FP) \div 100, is_dragging |-> FALSE,
     drag_accumulator |-> <<0, 0>>, julia_keyframes |-> DefaultKeyframes,
     julia_animation_active |-> FALSE, julia_animation_time |-> 0,
     julia_animation_duration |-> DefaultDuration,
     render_width |-> 800, render_height |-> 600]

NoRender == [done |-> FALSE]
NoImage == [built |-> FALSE]

AppInit ==
    /\ app = DefaultApp
    /\ pc = "keyboard"
    /\ display_size = <<0, 0>>
    /\ input = "none"
    /\ rendered = NoRender
    /\ image = NoImage

\* No call of render_fractal is modelled pixel by pixel.
RenderIdle ==
    /\ buffer = << >>
    /\ request = [width |-> 0, height |-> 0]
    /\ task_pos = << >>
    /\ writes = << >>
    /\ pass = 0
    /\ first_pass = << >>

\* The evaluator calls of SpecEval, beside an application that is not run.
EvalStart == EvalInit /\ AppInit /\ RenderIdle

SpecEval == EvalStart /\ [][EvalNext]_vars

(* ---- handle_keyboard_input ---- *)

\* Q: max_iter + 10, at most 5000.
KeyQ(p) == [p EXCEPT !.max_iter = Min(p.max_iter + 10, 5000)]
\* A: max_iter - 10 (saturating at 0), at least 10.
KeyA(p) == [p EXCEPT !.max_iter = Max(Max(p.max_iter - 10, 0), 10)]

\* handle_keyboard_input with the set `keys` of keys pressed in this frame:
\* Q, then A, then R; Space only prints.
handle_keyboard_input(a, keys) ==
    LET p1 == IF "Q" \in keys THEN KeyQ(a.params) ELSE a.params
        p2 == IF "A" \in keys THEN KeyA(p1) ELSE p1
        p3 == IF "R" \in keys THEN DefaultParams ELSE p2
    IN [a EXCEPT !.params = p3,
                 !.needs_redraw = a.needs_redraw
                                    \/ keys \cap {"Q", "A", "R"} # {}]

(* ---- interpolate_julia_keyframes ---- *)

\* The first i in lo .. Len(kfs) - 1 whose pair (i, i + 1) brackets progress;
\* 0 when the loop ends without a break.
RECURSIVE FirstBracket(_, _, _)
FirstBracket(kfs, progress, i) ==
    IF i > Len(kfs) - 1 THEN 0
    ELSE IF progress >= kfs[i].time /\ progress <= kfs[i + 1].time THEN i
    ELSE FirstBracket(kfs, progress, i + 1)

\* The pair (prev_keyframe, next_keyframe) the scan ends with.
BracketPair(kfs, progress) ==
    LET i == FirstBracket(kfs, progress, 1)
    IN IF i = 0 THEN <<kfs[1], kfs[Len(kfs)]>> ELSE <<kfs[i], kfs[i + 1]>>

\* prev + (next - prev) * smooth_t
Lerp(prev, next, smooth_t) == prev + Mul(next - prev, smooth_t)

interpolate_julia_keyframes(a, progress) ==
    IF a.julia_keyframes = << >>
    THEN <<a.params.julia_c_real, a.params.julia_c_imag>>
    ELSE LET pair == BracketPair(a.julia_keyframes, progress)
             prev_keyframe == pair[1]
             next_keyframe == pair[2]
             time_diff == next_keyframe.time - prev_keyframe.time
             local_progress ==
                 IF time_diff > 0
                 THEN Div(progress - prev_keyframe.time, time_diff)
                 ELSE 0
             smooth_t == Mul(Mul(local_progress, local_progress),
                             3 * FP - 2 * local_progress)
         IN << Lerp(prev_keyframe.c_real, next_keyframe.c_real, smooth_t),
               Lerp(prev_keyframe.c_imag, next_keyframe.c_imag, smooth_t) >>

(* ---- update(): auto-zoom and Julia keyframe animation ---- *)

\* if self.auto_zoom { zoom *= zoom_speed; needs_redraw = true }
AutoZoom(a) ==
    IF a.auto_zoom
    THEN [a EXCEPT !.params.zoom = Mul(a.params.zoom, a.zoom_speed),
                   !.needs_redraw = TRUE]
    ELSE a

\* (julia_animation_time / julia_animation_duration).min(1.0)
Progress(time, duration) == Min(Div(time, duration), FP)

\* The branch progress >= 1.0 that leaves julia_animation_time as it is.
AnimationFinishedNoReset(a) == [a EXCEPT !.julia_animation_active = FALSE]

\* if progress >= 1.0 { julia_animation_active = false; julia_animation_time = 0.0 }
AnimationFinished(a) ==
    [a EXCEPT !.julia_animation_active = FALSE, !.julia_animation_time = 0]

\* The Julia keyframe animation block of update().
JuliaAnimation(a) ==
    IF a.julia_animation_active /\ a.params.julia_mode
    THEN LET b == [a EXCEPT !.julia_animation_time = @ + AnimStep]
             progress == Progress(b.julia_animation_time,
                                  b.julia_animation_duration)
             c == interpolate_julia_keyframes(b, progress)
         IN IF progress >= FP
            THEN AnimationFinished(b)
            ELSE [b EXCEPT !.params.julia_c_real = c[1],
                           !.params.julia_c_imag = c[2],
                           !.needs_redraw = TRUE]
    ELSE a

(* ---- update(): the side panel ---- *)

\* The widgets of the side panel that act on the state, in the order of the
\* code.  A slider carries the value it was moved to.
SliderField ==
    [center_x |-> "center_x", center_y |-> "center_y", zoom |-> "zoom",
     max_iter |-> "max_iter", escape_radius |-> "escape_radius",
     color_offset |-> "color_offset", color_scale |-> "color_scale",
     julia_c_real |-> "julia_c_real", julia_c_imag |-> "julia_c_imag"]

ParamSliders == DOMAIN SliderField

Widget(kind, value) == [kind |-> kind, value |-> value]
NoWidget == Widget("none", 0)

\* Whether the widget is shown in this frame and, for a slider or checkbox,
\* whether using it changes the value (`.changed()`).
WidgetShown(a, w) ==
    CASE w.kind \in {"julia_c_real", "julia_c_imag"} ->
             a.params.julia_mode /\ a.params[w.kind] # w.value
      [] w.kind \in ParamSliders -> a.params[w.kind] # w.value
      [] w.kind = "zoom_speed" -> a.auto_zoom /\ a.zoom_speed # w.value
      [] w.kind = "duration" -> a.julia_animation_duration # w.value
      [] OTHER -> TRUE

\* Play: if ui.button(..).clicked() && self.params.julia_mode { .. }
PlayClicked(a) ==
    IF a.params.julia_mode
    THEN [a EXCEPT !.julia_animation_active = TRUE,
                   !.julia_animation_time = 0]
    ELSE a

\* A Stop that also puts the Julia constant back to the first keyframe.
StopClickedRewinds(a) ==
    [a EXCEPT !.julia_animation_active = FALSE, !.julia_animation_time = 0,
              !.params.julia_c_real = a.julia_keyframes[1].c_real,
              !.params.julia_c_imag = a.julia_keyframes[1].c_imag]

\* Stop: if ui.button(..).clicked() { .. }
StopClicked(a) ==
    [a EXCEPT !.julia_animation_active = FALSE, !.julia_animation_time = 0]

\* The side panel closure of update() when the user acts on widget w.
SidePanel(a, w) ==
    CASE w.kind \in ParamSliders ->
             [a EXCEPT !.params[w.kind] = w.value, !.needs_redraw = TRUE]
      [] w.kind = "julia_mode" ->
             [a EXCEPT !.params.julia_mode = ~a.params.julia_mode,
                       !.needs_redraw = TRUE]
      [] w.kind = "auto_zoom" -> [a EXCEPT !.auto_zoom = ~a.auto_zoom]
      [] w.kind = "zoom_speed" -> [a EXCEPT !.zoom_speed = w.value]
      [] w.kind = "play" -> PlayClicked(a)
      [] w.kind = "stop" -> StopClicked(a)
      [] w.kind = "duration" ->
             [a EXCEPT !.julia_animation_duration = w.value]
      [] w.kind = "reset" ->
             [a EXCEPT !.params = DefaultParams, !.needs_redraw = TRUE]
      [] OTHER -> a

(* ---- render_fractal ---- *)

\* (params.max_iter as f64 * zoom_factor.log10().max(1.0)) as u32, without
\* the .max(1.0).
ScaledIterationsNoFloor(max_iter, zoom) ==
    LET zoom_factor == Max(Div(zoom, 200 * FP), FP)
    IN ToU32(Mul(ToF64(max_iter), Log10(zoom_factor)))

\* let zoom_factor = (params.zoom / 200.0).max(1.0);
\* let scaled_iterations =
\*     (params.max_iter as f64 * zoom_factor.log10().max(1.0)) as u32;
ScaledIterations(max_iter, zoom) ==
    LET zoom_factor == Max(Div(zoom, 200 * FP), FP)
    IN ToU32(Mul(ToF64(max_iter), Max(Log10(zoom_factor), FP)))

\* scaled_iterations.min(5000)
EffectiveMaxIter(max_iter, zoom) == Min(ScaledIterations(max_iter, zoom), 5000)

\* A snapshot with a reduced cap: 75 % of the effective one, at least 80.
RenderParamsFast(p) ==
    [p EXCEPT !.max_iter =
        Max(80, (3 * EffectiveMaxIter(p.max_iter, p.zoom)) \div 4)]

\* let mut params = self.params; ...; params.max_iter = scaled_iterations.min(5000)
RenderParams(p) ==
    [p EXCEPT !.max_iter = EffectiveMaxIter(p.max_iter, p.zoom)]

\* What render_fractal does to the state of the frame: it evaluates one
\* pixel per index of the buffer, all with the same snapshot of the
\* parameters, whatever self.is_dragging is.
RenderRecord(a) ==
    [done |-> TRUE, params |-> RenderParams(a.params),
     base_params |-> a.params,
     width |-> a.render_width, height |-> a.render_height,
     evaluated |-> a.buffer_len, is_dragging |-> a.is_dragging]

(* ---- render_fractal: the parallel loop over the buffer ---- *)

\* The state render_fractal works from: self.params, the snapshot `params`
\* with the scaled cap, escape_radius_sq and the render size.
RenderRequest(p, width, height) ==
    [params |-> p, snapshot |-> RenderParams(p),
     escape_radius_sq |-> EscapeRadiusSq(p.escape_radius),
     width |-> width, height |-> height]

\* params.center_x + (x as f64 - self.render_width as f64 / 2.0), the
\* division by params.zoom left out.
PixelRealUnscaled(p, x, width) ==
    p.center_x + (ToF64(x) - Div(ToF64(width), 2 * FP))

\* params.center_x + (x as f64 - self.render_width as f64 / 2.0) / params.zoom
PixelReal(p, x, width) ==
    p.center_x + Div(ToF64(x) - Div(ToF64(width), 2 * FP), p.zoom)

\* params.center_y + (y as f64 - self.render_height as f64 / 2.0) / params.zoom
PixelImag(p, y, height) ==
    p.center_y + Div(ToF64(y) - Div(ToF64(height), 2 * FP), p.zoom)

\* The closure run on (i, pixel): the value written to index i.
RenderPixel(r, i) ==
    LET p == r.snapshot
        x == i % r.width
        y == i \div r.width
        real == PixelReal(p, x, r.width)
        imag == PixelImag(p, y, r.height)
        iterations ==
            IF p.julia_mode
            THEN julia_iterations(real, imag, p.julia_c_real, p.julia_c_imag,
                                  p.max_iter, r.escape_radius_sq)
            ELSE mandelbrot_iterations(real, imag, p.max_iter,
                                       r.escape_radius_sq)
    IN colorize_pixel(iterations, p.max_iter, p.color_scale, p.color_offset)

\* The number of tasks par_iter_mut splits the buffer into.
RenderTasks == 2

\* par_iter_mut hands each task a contiguous slice of the buffer; the slices
\* are disjoint and cover it.  ChunkLen is the length of a slice, task t
\* owns the indices ChunkStart(t, n) .. ChunkEnd(t, n) - 1 of a buffer of n.
ChunkLen(n) == Max((n + RenderTasks - 1) \div RenderTasks, 1)
NumTasks(n) == (n + ChunkLen(n) - 1) \div ChunkLen(n)
ChunkStart(t, n) == (t - 1) * ChunkLen(n)
\* Slices that share their boundary index.
ChunkEndOverlapping(t, n) == Min(t * ChunkLen(n) + 1, n)
ChunkEnd(t, n) == Min(t * ChunkLen(n), n)

(* ---- update(): the central panel ---- *)

\* let aspect_ratio = 4.0 / 3.0
AspectRatio == Div(4 * FP, 3 * FP)

\* display_size from ui.available_size()
DisplaySize(max_size) ==
    IF Div(max_size[1], AspectRatio) < max_size[2]
    THEN <<max_size[1], Div(max_size[1], AspectRatio)>>
    ELSE <<Mul(max_size[2], AspectRatio), max_size[2]>>

\* (display_size.x as usize).max(200).min(2000)
NewWidth(size) == Min(Max(ToU32(size[1]), 200), 2000)
\* (display_size.y as usize).max(150).min(1500)
NewHeight(size) == Min(Max(ToU32(size[2]), 150), 1500)

\* if size_changed { render_width = ..; render_height = ..; buffer.resize(..) }
Resize(a, new_width, new_height) ==
    IF new_width # a.render_width \/ new_height # a.render_height
    THEN [a EXCEPT !.render_width = new_width, !.render_height = new_height,
                   !.buffer_len = new_width * new_height]
    ELSE a

\* Whether the central panel renders in this frame.
MustRender(a, new_width, new_height) ==
    \/ new_width # a.render_width \/ new_height # a.render_height
    \/ a.needs_redraw

\* ColorImage::from_rgba_unmultiplied([w, h], rgba) panics unless
\* w * h * 4 = rgba.len(); buffer_to_rgba returns 4 bytes per pixel.
ImageRecord(a) ==
    [built |-> TRUE, width |-> a.render_width, height |-> a.render_height,
     rgba_len |-> 4 * a.buffer_len]

ImageOk(img) == img.width * img.height * 4 = img.rgba_len

(* ---- handle_mouse_interaction ---- *)

Mouse(kind, dx, dy) == [kind |-> kind, dx |-> dx, dy |-> dy]
NoMouse == Mouse("none", 0, 0)

\* Vec2::length
Length(v) == Sqrt(Mul(v[1], v[1]) + Mul(v[2], v[2]))

\* center -= drag_accumulator * scale; needs_redraw = true
ApplyDrag(a, acc, size) ==
    LET scale_x == Div(Div(ToF64(a.render_width), a.params.zoom), size[1])
        scale_y == Div(Div(ToF64(a.render_height), a.params.zoom), size[2])
    IN [a EXCEPT !.params.center_x = a.params.center_x - Mul(acc[1], scale_x),
                 !.params.center_y = a.params.center_y - Mul(acc[2], scale_y),
                 !.needs_redraw = TRUE]

\* if response.drag_started() { .. }
DragStarted(a, m) ==
    IF m.kind = "drag_start"
    THEN [a EXCEPT !.is_dragging = TRUE, !.drag_accumulator = <<0, 0>>]
    ELSE a

\* if response.dragged() { .. }  (true on the frame the drag starts, too)
Dragged(a, m, size) ==
    IF m.kind \in {"drag_start", "drag"}
    THEN LET acc == <<a.drag_accumulator[1] + m.dx,
                      a.drag_accumulator[2] + m.dy>>
         IN IF Length(acc) > 2 * FP
            THEN [ApplyDrag(a, acc, size) EXCEPT !.drag_accumulator = <<0, 0>>]
            ELSE [a EXCEPT !.drag_accumulator = acc]
    ELSE a

\* if response.drag_stopped() { .. }
DragStopped(a, m, size) ==
    IF m.kind = "drag_stop"
    THEN LET b == IF Length(a.drag_accumulator) > FP \div 10
                  THEN ApplyDrag(a, a.drag_accumulator, size)
                  ELSE a
         IN [b EXCEPT !.is_dragging = FALSE, !.drag_accumulator = <<0, 0>>]
    ELSE a

\* A scroll that changes the zoom and does not set needs_redraw.
ScrolledNoRedraw(a, m) ==
    IF m.kind = "scroll"
    THEN [a EXCEPT !.params.zoom = Mul(a.params.zoom, (11 * FP) \div 10)]
    ELSE a

\* if response.hovered() { zoom *= 1.1 or 1.0 / 1.1 }
Scrolled(a, m) ==
    IF m.kind = "scroll"
    THEN LET zoom_factor == IF m.dy > 0 THEN (11 * FP) \div 10
                            ELSE Div(FP, (11 * FP) \div 10)
         IN [a EXCEPT !.params.zoom = Mul(a.params.zoom, zoom_factor),
                      !.needs_redraw = TRUE]
    ELSE a

\* if response.clicked() { .. }: m.dx, m.dy are x_ratio and y_ratio.
Clicked(a, m) ==
    IF m.kind = "click"
    THEN LET new_x == a.params.center_x
                      + Mul(m.dx - FP \div 2,
                            Div(ToF64(a.render_width), a.params.zoom))
             new_y == a.params.center_y
                      + Mul(m.dy - FP \div 2,
                            Div(ToF64(a.render_height), a.params.zoom))
         IN [a EXCEPT !.params.center_x = new_x, !.params.center_y = new_y,
                      !.params.zoom = 2 * a.params.zoom,
                      !.needs_redraw = TRUE]
    ELSE a

handle_mouse_interaction(a, m, size) ==
    Clicked(Scrolled(DragStopped(Dragged(DragStarted(a, m), m, size),
                                 m, size), m), m)

\* What egui can report for the image given the drag state the program
\* tracks: a drag starts when none is on, and goes on or stops when one is.
MouseShown(a, m) ==
    CASE m.kind = "drag_start" -> ~a.is_dragging
      [] m.kind \in {"drag", "drag_stop"} -> a.is_dragging
      [] OTHER -> TRUE

-----------------------------------------------------------------------------
(* One frame of update(), in the order of the code: keyboard, animation,   *)
(* side panel, central panel (resize, render, texture), mouse.  Each step  *)
(* draws its input from the set it is given.                               *)

\* self.handle_keyboard_input(ctx)
FrameKeyboard(Keys) ==
    /\ pc = "keyboard"
    /\ \E keys \in Keys :
        /\ app' = handle_keyboard_input(app, keys)
        /\ input' = "keyboard"
    /\ pc' = "animate"
    /\ UNCHANGED <<display_size, rendered, image>>

\* The auto-zoom and Julia keyframe animation blocks.
FrameAnimate ==
    /\ pc = "animate"
    /\ app' = JuliaAnimation(AutoZoom(app))
    /\ input' = IF app.julia_animation_active /\ ~app'.julia_animation_active
                THEN "animation_finished" ELSE "animate"
    /\ pc' = "side_panel"
    /\ UNCHANGED <<display_size, rendered, image>>

\* egui::SidePanel::left("controls").show(..)
FrameSidePanel(Widgets) ==
    /\ pc = "side_panel"
    /\ \E w \in Widgets :
        /\ WidgetShown(app, w)
        /\ app' = SidePanel(app, w)
        /\ input' = w.kind
    /\ pc' = "central_panel"
    /\ UNCHANGED <<display_size, rendered, image>>

\* egui::CentralPanel::default().show(..), up to the texture update.  A
\* failed assertion of from_rgba_unmultiplied ends the program.
FrameCentralPanel(Sizes) ==
    /\ pc = "central_panel"
    /\ \E max_size \in Sizes :
        LET size == DisplaySize(max_size)
            new_width == NewWidth(size)
            new_height == NewHeight(size)
            resized == Resize(app, new_width, new_height)
        IN /\ display_size' = size
           /\ IF MustRender(app, new_width, new_height)
              THEN /\ rendered' = RenderRecord(resized)
                   /\ image' = ImageRecord(resized)
                   /\ input' = "render"
                   /\ IF ImageOk(ImageRecord(resized))
                      THEN /\ app' = [resized EXCEPT !.texture = TRUE,
                                                     !.needs_redraw = FALSE]
                           /\ pc' = "mouse"
                      ELSE /\ app' = resized
                           /\ pc' = "panicked"
              ELSE /\ input' = "no_render"
                   /\ pc' = IF app.texture THEN "mouse" ELSE "keyboard"
                   /\ UNCHANGED <<app, rendered, image>>

\* self.handle_mouse_interaction(&response, rect, display_size)
FrameMouse(Mice) ==
    /\ pc = "mouse"
    /\ \E m \in Mice :
        /\ MouseShown(app, m)
        /\ app' = handle_mouse_interaction(app, m, display_size)
        /\ input' = m.kind
    /\ pc' = "keyboard"
    /\ UNCHANGED <<display_size, rendered, image>>

\* The part of the view the model explores: the zoom and the centre inside
\* a window, so that scrolling, clicking, dragging and auto-zoom end.
\* MaxZoom is a zoom; MaxPan is a distance from the default centre, in
\* hundredths.
MaxZoom == 450
MaxPan == 2

InWindow(a) ==
    /\ a.params.zoom <= MaxZoom * FP
    /\ a.params.zoom >= 50 * FP
    /\ Abs(a.params.center_x - DefaultParams.center_x)
         <= (MaxPan * FP) \div 100
    /\ Abs(a.params.center_y - DefaultParams.center_y)
         <= (MaxPan * FP) \div 100

\* The variables a frame does not touch.
NotInFrame == UNCHANGED <<evalVars, renderVars>>

-----------------------------------------------------------------------------
(* SpecIter: the frames in which the user changes the iteration cap (keys  *)
(* Q, A, R and the slider) and the zoom (slider), and the cap that         *)
(* render_fractal derives from them.                                       *)

IterKeys == {{}, {"Q"}, {"A"}, {"R"}}
\* Zoom slider positions within 50.0 ..= 1000000.0.
IterZooms == {50 * FP, 200 * FP, 2000 * FP, 6000 * FP, 10 ^ 6 * FP}
IterWidgets ==
    {NoWidget} \cup {Widget("zoom", z) : z \in IterZooms}
               \cup {Widget("max_iter", n) : n \in {10, 1000}}
\* ui.available_size(): a panel of 1000 x 700 points.
IterSizes == {<<1000 * FP, 700 * FP>>}

IterNext ==
    \/ FrameKeyboard(IterKeys) /\ NotInFrame
    \/ FrameAnimate /\ NotInFrame
    \/ FrameSidePanel(IterWidgets) /\ NotInFrame
    \/ FrameCentralPanel(IterSizes) /\ NotInFrame
    \/ FrameMouse({NoMouse}) /\ NotInFrame

IterInit == AppInit /\ RenderIdle /\ eval = NoExit

SpecIter == IterInit /\ [][IterNext]_vars

\* C2: the cap render_fractal used is at most 5000, is at least the base cap
\* when the zoom is at least 200, and the cap of the same base at any larger
\* zoom is not smaller.
C2_EffectiveCap ==
    rendered.done =>
        LET base == rendered.base_params.max_iter
            zoom == rendered.base_params.zoom
            effective == rendered.params.max_iter
        IN /\ effective <= 5000
           /\ zoom >= 200 * FP => effective >= base
           /\ \A z2 \in IterZooms :
                /\ z2 >= zoom => EffectiveMaxIter(base, z2) >= effective
                /\ z2 <= zoom => EffectiveMaxIter(base, z2) <= effective

\* C2 witness: a render at a zoom beyond 2000 (log10 above 1) whose scaled
\* cap is strictly between the base cap and the ceiling, and one at the
\* ceiling is reached from base 5000.
C2_Witness ==
    /\ rendered.done
    /\ rendered.base_params.zoom > 2000 * FP
    /\ rendered.base_params.max_iter < rendered.params.max_iter
    /\ rendered.params.max_iter < 5000

\* C2 witness of the ceiling: the base cap itself has reached 5000.
C2_WitnessCeiling ==
    /\ rendered.done
    /\ rendered.base_params.max_iter = 5000
    /\ rendered.params.max_iter = 5000

-----------------------------------------------------------------------------
(* SpecKey: interpolate_julia_keyframes on keyframe lists drawn from a     *)
(* bounded set: times sorted, the first 0 and the last 1.                  *)

MaxKeyframes == 3

KeyTimes == {0, FP \div 2, FP}
KeyConsts == {<<-(7 * FP) \div 10, (27 * FP) \div 100>>,
              <<(285 * FP) \div 1000, FP \div 100>>,
              <<-(4 * FP) \div 10, (6 * FP) \div 10>>}
KeyProgresses == {0, FP \div 4, FP \div 2, FP}

KeyframeLists ==
    UNION { { [i \in 1 .. n |-> Keyframe(t[i], c[i][1], c[i][2])] :
                t \in { u \in [1 .. n -> KeyTimes] :
                          /\ u[1] = 0 /\ u[n] = FP
                          /\ \A i \in 1 .. n - 1 : u[i] <= u[i + 1] },
                c \in [1 .. n -> KeyConsts] } :
            n \in 2 .. MaxKeyframes }

KeyInit ==
    /\ \E kfs \in KeyframeLists :
         app = [DefaultApp EXCEPT !.julia_keyframes = kfs]
    /\ pc = "interpolate"
    /\ display_size = <<0, 0>>
    /\ input = -1
    /\ rendered = NoRender
    /\ image = NoImage
    /\ eval = NoExit
    /\ RenderIdle

\* let (c_real, c_imag) = self.interpolate_julia_keyframes(progress);
\* self.params.julia_c_real = c_real; self.params.julia_c_imag = c_imag;
KeyInterpolate ==
    /\ pc = "interpolate"
    /\ \E progress \in KeyProgresses :
        /\ app' = [app EXCEPT
             !.params.julia_c_real =
                 interpolate_julia_keyframes(app, progress)[1],
             !.params.julia_c_imag =
                 interpolate_julia_keyframes(app, progress)[2]]
        /\ input' = progress
    /\ pc' = "interpolated"
    /\ UNCHANGED <<display_size, rendered, image, evalVars, renderVars>>

KeyNext == KeyInterpolate

SpecKey == KeyInit /\ [][KeyNext]_vars

\* C3: at progress 0 the interpolation is the first keyframe's constant and
\* at progress 1 it is the last keyframe's constant.
C3_Endpoints ==
    LET kfs == app.julia_keyframes
        c == <<app.params.julia_c_real, app.params.julia_c_imag>>
    IN pc = "interpolated" =>
        /\ input = 0 => c = <<kfs[1].c_real, kfs[1].c_imag>>
        /\ input = FP => c = <<kfs[Len(kfs)].c_real, kfs[Len(kfs)].c_imag>>

-----------------------------------------------------------------------------
(* SpecAnim: the frames in which the user works the Julia animation: the   *)
(* Julia checkbox, Play, Stop, the duration slider and Reset View.         *)

AnimDurations == {2 * AnimStep, DefaultDuration}
AnimWidgets ==
    {NoWidget, Widget("julia_mode", 0), Widget("play", 0), Widget("stop", 0),
     Widget("reset", 0)}
      \cup {Widget("duration", d) : d \in AnimDurations}
AnimSizes == {<<1000 * FP, 700 * FP>>}

AnimNext ==
    \/ FrameKeyboard({{}}) /\ NotInFrame
    \/ FrameAnimate /\ NotInFrame
    \/ FrameSidePanel(AnimWidgets) /\ NotInFrame
    \/ FrameCentralPanel(AnimSizes) /\ NotInFrame
    \/ FrameMouse({NoMouse}) /\ NotInFrame

AnimInit == AppInit /\ RenderIdle /\ eval = NoExit

SpecAnim == AnimInit /\ [][AnimNext]_vars

\* C6: whenever the animator is Idle its elapsed time is 0.
C6_IdleElapsedZero ==
    ~app.julia_animation_active => app.julia_animation_time = 0

\* C6 witness: the tick on which progress reaches 1 has just ended a running
\* animation.
C6_Witness ==
    /\ input = "animation_finished"
    /\ ~app.julia_animation_active
    /\ app.julia_animation_time = 0

\* C7: the frame step that handles Stop ends Idle with elapsed 0 and leaves
\* the Julia constant and every other view parameter as they were.
C7_StopFrame ==
    [][(pc = "side_panel" /\ input' = "stop") =>
          /\ ~app'.julia_animation_active
          /\ app'.julia_animation_time = 0
          /\ app'.params = app.params]_vars

\* C7 witness: Stop was handled in a frame whose tick had just moved the
\* Julia constant (the animation was Running), and the constant is still
\* the interpolated one.
C7_Witness ==
    /\ pc = "central_panel" /\ input = "stop"
    /\ app.needs_redraw
    /\ ~app.julia_animation_active
    /\ app.params.julia_c_real # DefaultParams.julia_c_real

-----------------------------------------------------------------------------
(* SpecApp: the frames in which the panel changes size and the user drags, *)
(* scrolls and clicks on the image.                                        *)

\* ui.available_size(): panels whose image is 800 x 600, 933 x 700, and one
\* small enough for the floor of 200 x 150.
AppSizes == {<<800 * FP, 700 * FP>>, <<1000 * FP, 700 * FP>>,
             <<100 * FP, 100 * FP>>}
AppWidgets == {NoWidget}
\* Drags of 3 points and of 1 point to the right, a scroll up, and a click
\* a little right of the middle of the image.
AppMice ==
    {NoMouse, Mouse("drag_start", 3 * FP, 0), Mouse("drag", FP, 0),
     Mouse("drag_stop", 0, 0), Mouse("scroll", 0, FP),
     Mouse("click", (505 * FP) \div 1000, FP \div 2)}

AppStep == NotInFrame /\ InWindow(app')

AppNext ==
    \/ FrameKeyboard({{}}) /\ AppStep
    \/ FrameAnimate /\ AppStep
    \/ FrameSidePanel(AppWidgets) /\ AppStep
    \/ FrameCentralPanel(AppSizes) /\ AppStep
    \/ FrameMouse(AppMice) /\ AppStep

SpecApp == AnimInit /\ [][AppNext]_vars

\* ceil(n / 2): the number of 2-pixel blocks along a side of n pixels.
HalfUp(n) == (n + 1) \div 2

C10_BufferMatchesSize ==
    image.built => image.rgba_len = 4 * image.width * image.height

-----------------------------------------------------------------------------
(* SpecRender: two calls of render_fractal on one buffer, pixel by pixel.  *)
(* The tasks of a call run in any interleaving; each step is one call of   *)
(* the closure.  The render sizes are small stand-ins for the window's.    *)

\* The view of the default parameters with 50 iterations, the same in Julia
\* mode, and a view outside the set.
RenderParamSets ==
    {[DefaultParams EXCEPT !.max_iter = 50],
     [DefaultParams EXCEPT !.max_iter = 50, !.julia_mode = TRUE],
     [DefaultParams EXCEPT !.max_iter = 10, !.zoom = 50 * FP,
                           !.center_x = FP \div 2, !.center_y = FP]}
RenderSizes == {<<4, 4>>, <<3, 2>>}

BufferLen == Len(buffer)
TaskIds == 1 .. NumTasks(BufferLen)
RenderDone ==
    \A t \in TaskIds :
        ChunkStart(t, BufferLen) + task_pos[t] >= ChunkEnd(t, BufferLen)

\* self.buffer.resize(new_width * new_height, 0), then the first call.
RenderInit ==
    /\ \E p \in RenderParamSets, size \in RenderSizes :
        /\ request = RenderRequest(p, size[1], size[2])
        /\ buffer = [i \in 1 .. size[1] * size[2] |-> 0]
        /\ writes = [i \in 1 .. size[1] * size[2] |-> 0]
        /\ task_pos = [t \in 1 .. NumTasks(size[1] * size[2]) |-> 0]
    /\ pass = 1
    /\ first_pass = << >>
    /\ AppInit
    /\ eval = NoExit

\* One call of the closure: task t writes the next index of its slice.
RenderWorkUnit ==
    \E t \in TaskIds :
        LET i == ChunkStart(t, BufferLen) + task_pos[t]
        IN /\ i < ChunkEnd(t, BufferLen)
           /\ buffer' = [buffer EXCEPT ![i + 1] = RenderPixel(request, i)]
           /\ writes' = [writes EXCEPT ![i + 1] = @ + 1]
           /\ task_pos' = [task_pos EXCEPT ![t] = @ + 1]
           /\ UNCHANGED <<request, pass, first_pass>>

\* The first call has returned; render_fractal is called again on the same
\* buffer, with the same or with other parameters.
RenderAgain ==
    /\ pass = 1 /\ RenderDone
    /\ \E p \in RenderParamSets :
         request' = RenderRequest(p, request.width, request.height)
    /\ first_pass' = <<request, buffer>>
    /\ pass' = 2
    /\ writes' = [i \in 1 .. BufferLen |-> 0]
    /\ task_pos' = [t \in TaskIds |-> 0]
    /\ UNCHANGED buffer

RenderNext ==
    \/ RenderWorkUnit /\ UNCHANGED <<evalVars, appVars>>
    \/ RenderAgain /\ UNCHANGED <<evalVars, appVars>>

SpecRender == RenderInit /\ [][RenderNext]_vars

\* The image of a request: the value of each index, from the index and the
\* snapshot alone.
RenderedImage(r) == [i \in 1 .. r.width * r.height |-> RenderPixel(r, i - 1)]

\* Index i has been reached by the task whose slice it lies in.
Reached(i) ==
    LET t == (i \div ChunkLen(BufferLen)) + 1
    IN i < ChunkStart(t, BufferLen) + task_pos[t]

\* C4: within a call no index is written twice and an index is written by
\* the task that owns it; when the call is over every index has been written
\* once and the buffer is the image of the request, whatever the order of
\* the tasks' steps and whatever the buffer held before; a second call with
\* the same request leaves the buffer of the first.
C4_WrittenOnce ==
    /\ \A i \in 0 .. BufferLen - 1 :
          writes[i + 1] = IF Reached(i) THEN 1 ELSE 0
    /\ RenderDone =>
          /\ \A i \in 1 .. BufferLen : writes[i] = 1
          /\ buffer = RenderedImage(request)
          /\ (pass = 2 /\ first_pass[1] = request) => buffer = first_pass[2]

\* C4 witness: a second call with other parameters is over and has replaced
\* the image the first call left.
C4_Witness ==
    /\ pass = 2 /\ RenderDone
    /\ first_pass[1] # request
    /\ \E i \in 1 .. BufferLen :
          buffer[i] # first_pass[2][i] /\ first_pass[2][i] # 0

\* The request of C9: 4 x 4, Mandelbrot mode, center (-0.75, 0), zoom 200,
\* max_iter 50, escape_radius 2.
C9Request == RenderRequest([DefaultParams EXCEPT !.max_iter = 50], 4, 4)

\* Pixel (x, y) of the 4-wide buffer.
PixelAt(x, y) == buffer[y * 4 + x + 1]

\* C9 (as stated): the four center pixels are black and the four corner
\* pixels are not.
C9_CornersColoured ==
    (RenderDone /\ request = C9Request) =>
        /\ \A x \in {1, 2}, y \in {1, 2} : PixelAt(x, y) = 0
        /\ \A x \in {0, 3}, y \in {0, 3} : PixelAt(x, y) # 0

\* C9 (amended): all sixteen pixels, the corners included, are black.
C9_AllBlack ==
    (RenderDone /\ request = C9Request) =>
        \A x \in 0 .. 3, y \in 0 .. 3 : PixelAt(x, y) = 0

\* C9 witness: the first call with the request of C9 is over and the center
\* block is black.
C9_Witness ==
    /\ pass = 1 /\ RenderDone /\ request = C9Request
    /\ \A x \in {1, 2}, y \in {1, 2} : PixelAt(x, y) = 0

-----------------------------------------------------------------------------
(* SpecFresh: the frames in which every kind of step changes a render      *)
(* input: keys, auto-zoom, the Julia animation, sliders, the checkbox,     *)
(* Reset View, the panel's size and the mouse.                             *)

\* The zoom up to which auto-zoom steps and drags are followed.
MaxGestureZoom == 205

\* Q and A together put the cap back where it was; R resets the view.
FreshKeys == {{}, {"R"}, {"Q", "A"}}
FreshWidgets ==
    {NoWidget, Widget("julia_mode", 0), Widget("auto_zoom", 0),
     Widget("play", 0), Widget("reset", 0), Widget("max_iter", 510)}
FreshSizes == {<<800 * FP, 700 * FP>>, <<1000 * FP, 700 * FP>>}
\* A drag of 3 points to the right, its end, a scroll up and a click in the
\* middle of the image.
FreshMice ==
    {NoMouse, Mouse("drag_start", 3 * FP, 0), Mouse("drag_stop", 0, 0),
     Mouse("scroll", 0, FP), Mouse("click", FP \div 2, FP \div 2)}

FreshStep ==
    /\ NotInFrame
    /\ InWindow(app')
    /\ (app'.auto_zoom \/ app'.is_dragging)
          => app'.params.zoom <= MaxGestureZoom * FP

FreshNext ==
    \/ FrameKeyboard(FreshKeys) /\ FreshStep
    \/ FrameAnimate /\ FreshStep
    \/ FrameSidePanel(FreshWidgets) /\ FreshStep
    \/ FrameCentralPanel(FreshSizes) /\ FreshStep
    \/ FrameMouse(FreshMice) /\ FreshStep

SpecFresh == AnimInit /\ [][FreshNext]_vars

\* The render inputs of the state: the parameters and the render size.
RenderInputs(a) == <<a.params, a.render_width, a.render_height>>

\* The render inputs the last completed render used.
RenderedInputs == <<rendered.base_params, rendered.width, rendered.height>>

\* C11: wherever the frame stands, and so at its end, a render input that
\* differs from the one the last render used comes with needs_redraw; a
\* central panel that has just passed without rendering shows an image of
\* the current parameters at the size derived from the display size; and a
\* render uses the parameters and the size current at that step.
C11_NeverStale ==
    /\ (rendered.done /\ RenderInputs(app) # RenderedInputs)
          => app.needs_redraw
    /\ (~rendered.done) => app.needs_redraw
    /\ (input = "no_render" /\ pc \in {"mouse", "keyboard"}) =>
          /\ rendered.done
          /\ RenderedInputs
               = <<app.params, NewWidth(display_size), NewHeight(display_size)>>
    /\ (input = "render" /\ pc \in {"mouse", "panicked"}) =>
          RenderedInputs
            = <<app.params, NewWidth(display_size), NewHeight(display_size)>>

\* C11 witness: a frame has ended in which the mouse changed the view after
\* the render, so the image shown is behind and needs_redraw is set.
C11_Witness ==
    /\ pc = "keyboard" /\ rendered.done
    /\ input \in {"scroll", "click", "drag_start", "drag_stop"}
    /\ app.params # rendered.base_params
    /\ app.needs_redraw

-----------------------------------------------------------------------------
(* SpecAnimLive: the frames of SpecAnim, with frames that keep being       *)
(* executed: while the animation is active update() asks for a repaint at  *)
(* the end of every frame.                                                 *)

\* The positions of a running update(); after a panic there is none.
FramePcs == {"keyboard", "animate", "side_panel", "central_panel", "mouse"}

\* update() moves on to its next step, or egui calls it for the next frame:
\* if self.auto_zoom || self.julia_animation_active { ctx.request_repaint() }
FrameAdvances == pc' \in FramePcs /\ pc' # pc

SpecAnimLive == AnimInit /\ [][AnimNext]_vars /\ WF_pc(FrameAdvances)

\* C12: a running animation becomes Idle, unless Play starts it again or
\* Stop is pressed first.
C12_RunningEndsIdle ==
    app.julia_animation_active
      ~> (~app.julia_animation_active \/ input \in {"play", "stop"})

====
